---- MODULE Spec2Model ----
(***************************************************************************)
(* Finance Data Visualizer (main.py): the Mongo-backed category store, the *)
(* CSV loader, the keyword classifier, the Save Categories loop and the    *)
(* per-category totals, as one state machine.  One step of the machine is  *)
(* one run of the Streamlit script (module level code, then main()).       *)
(*                                                                         *)
(* Strings that the code trims or lower-cases (Details, keywords, Amount)  *)
(* are sequences of one-character strings.  Category names are strings;    *)
(* the one place the code takes a name apart (the update path              *)
(* "data.<category>") is modelled by PathSegments.                         *)
(***************************************************************************)
EXTENDS Integers, Sequences, FiniteSets, TLC

VARIABLES
    categories,      \* st.session_state.categories: ordered name -> keyword list
    debits_df,       \* st.session_state.debits_df
    uploaded_file,   \* the file held by st.file_uploader
    category_totals, \* the table of line 185-186 as last rendered
    mongo_client,    \* the module global _mongo_client
    doc,             \* the document {"_id": "categories_doc"} of the collection
    log,             \* what the last script run did, in program order
    faulted,         \* some backing-store call of the session failed or had no handle
    fed,             \* the single-row edits that moved an "Uncategorized" row
    runs             \* script runs so far

vars == << categories, debits_df, uploaded_file, category_totals, mongo_client,
           doc, log, faulted, fed, runs >>

\* ------------------------------------------------------------------ bounds
MaxRows == 2
MaxRuns == 2

\* ------------------------------------------------------------- the inputs
Uncategorized == "Uncategorized"

\* what a user may type into "Add New Category"
NewCategoryNames == { "Food", "A.B", Uncategorized }

\* Date cells: "04 Jan 2024" and "2024-01-04", split at the blanks
GoodDate == << "04", "Jan", "2024" >>
BadDate == << "2024-01-04" >>

RequiredColumns == { "Date", "Details", "Amount", "Debit/Credit" }

\* ------------------------------------------------------ string primitives
\* str.lower() on the characters in use
LowerChar(c) == IF c = "A" THEN "a" ELSE IF c = "B" THEN "b" ELSE c

Lower(s) == [ i \in 1..Len(s) |-> LowerChar(s[i]) ]

RECURSIVE LStrip(_)
LStrip(s) == IF s # <<>> /\ Head(s) = " " THEN LStrip(Tail(s)) ELSE s

RECURSIVE RStrip(_)
RStrip(s) ==
    IF s # <<>> /\ s[Len(s)] = " " THEN RStrip(SubSeq(s, 1, Len(s) - 1)) ELSE s

\* str.strip()
Strip(s) == RStrip(LStrip(s))

\* str.replace(",", "")
RECURSIVE RemoveCommas(_)
RemoveCommas(s) ==
    IF s = <<>> THEN <<>>
    ELSE IF Head(s) = "," THEN RemoveCommas(Tail(s))
    ELSE <<Head(s)>> \o RemoveCommas(Tail(s))

Digits == { "0", "1", "2", "3", "4", "5", "6", "7", "8", "9" }

DigitValue(c) ==
    CASE c = "0" -> 0 [] c = "1" -> 1 [] c = "2" -> 2 [] c = "3" -> 3
      [] c = "4" -> 4 [] c = "5" -> 5 [] c = "6" -> 6 [] c = "7" -> 7
      [] c = "8" -> 8 [] c = "9" -> 9

\* whether float(s) succeeds, for the digit strings in use
IsNumeric(s) == s # <<>> /\ \A i \in 1..Len(s) : s[i] \in Digits

RECURSIVE ToFloat(_)
ToFloat(s) ==
    IF s = <<>> THEN 0 ELSE 10 * ToFloat(SubSeq(s, 1, Len(s) - 1)) + DigitValue(s[Len(s)])

MonthAbbrev == { "Jan", "Feb", "Mar", "Apr", "May", "Jun",
                 "Jul", "Aug", "Sep", "Oct", "Nov", "Dec" }

DayTokens == { "04" }
YearTokens == { "2024" }

\* whether the cell matches format "%d %b %Y"
DateMatches(d) ==
    Len(d) = 3 /\ d[1] \in DayTokens /\ d[2] \in MonthAbbrev /\ d[3] \in YearTokens

\* ------------------------------------------- the ordered mapping (a dict)
Keys(m) == { m[i].name : i \in 1..Len(m) }

HasKey(m, k) == k \in Keys(m)

IndexOf(m, k) == CHOOSE i \in 1..Len(m) : m[i].name = k

\* m[k]
Get(m, k) == m[IndexOf(m, k)].keywords

\* m[k] = v: a new key goes last, a known key keeps its place
Put(m, k, v) ==
    IF HasKey(m, k)
    THEN [ m EXCEPT ![IndexOf(m, k)] = [ name |-> k, keywords |-> v ] ]
    ELSE Append(m, [ name |-> k, keywords |-> v ])

InList(x, l) == \E i \in 1..Len(l) : l[i] = x

DefaultCategories == << [ name |-> Uncategorized, keywords |-> <<>> ] >>

\* ----------------------------------------------------------- the classifier
\* RowMatches with the Details compared as written (line 82 without lower())
RowMatchesDetailsAsWritten(details, keywords) ==
    InList(Strip(details), [ i \in 1..Len(keywords) |-> Strip(Lower(keywords[i])) ])

\* lines 79, 82-83: the row's Details, lower-cased and trimmed, is one of the
\* category's lower-cased and trimmed keywords
RowMatches(details, keywords) ==
    InList(Strip(Lower(details)), [ i \in 1..Len(keywords) |-> Strip(Lower(keywords[i])) ])

\* lines 81-84: the inner loop, for one category
MarkRows(rows, category, keywords) ==
    [ i \in 1..Len(rows) |->
        IF RowMatches(rows[i].Details, keywords)
        THEN [ rows[i] EXCEPT !.Category = category ]
        ELSE rows[i] ]

\* lines 75-84: the outer loop over the store, from entry k on
RECURSIVE CategorizeFrom(_, _, _)
CategorizeFrom(rows, cats, k) ==
    IF k > Len(cats) THEN rows
    ELSE IF cats[k].name = Uncategorized \/ cats[k].keywords = <<>>
         THEN CategorizeFrom(rows, cats, k + 1)
         ELSE CategorizeFrom(MarkRows(rows, cats[k].name, cats[k].keywords), cats, k + 1)

\* row["Details"] is read (and raises KeyError without the column) when some
\* category reaches the inner loop and the frame has a row
ReadsDetails(df, cats) ==
    /\ df.rows # <<>>
    /\ \E k \in 1..Len(cats) : cats[k].name # Uncategorized /\ cats[k].keywords # <<>>

\* categorize_transaction(df) against the store cats: [ok, df]
categorize_transaction(df, cats) ==
    LET blank == [ i \in 1..Len(df.rows) |-> [ df.rows[i] EXCEPT !.Category = Uncategorized ] ]
    IN  IF ReadsDetails(df, cats) /\ "Details" \notin df.columns
        THEN [ ok |-> FALSE, df |-> df ]
        ELSE [ ok |-> TRUE,
               df |-> [ columns |-> df.columns \cup { "Category" },
                        rows |-> CategorizeFrom(blank, cats, 1) ] ]

\* ---------------------------------------------------------------- the loader
NoFrame == [ columns |-> {}, rows |-> <<>> ]

\* lines 93-96: the Amount column as floats; the column is of dtype object
\* when some cell is not a plain number, and then the commas are removed
AmountsConvert(file) ==
    LET plain == \A i \in 1..Len(file.rows) : IsNumeric(file.rows[i].Amount)
    IN  IF plain THEN TRUE
        ELSE \A i \in 1..Len(file.rows) : IsNumeric(RemoveCommas(file.rows[i].Amount))

AmountOf(cell) == ToFloat(RemoveCommas(cell))

\* line 97
DatesConvert(file) == \A i \in 1..Len(file.rows) : DateMatches(file.rows[i].Date)

\* pd.read_csv and lines 91-97: the typed frame, index 1..n, before classification
ParsedFrame(file) ==
    [ columns |-> file.columns,
      rows |-> [ i \in 1..Len(file.rows) |->
                   [ idx |-> i,
                     Date |-> << file.rows[i].Date[3], file.rows[i].Date[2], file.rows[i].Date[1] >>,
                     Details |-> file.rows[i].Details,
                     Amount |-> AmountOf(file.rows[i].Amount),
                     DC |-> file.rows[i].DC,
                     Category |-> "" ] ] ]

\* load_transactions(file): [ok, df]; ok = FALSE is the None of line 102
load_transactions(file, cats) ==
    IF \/ "Amount" \notin file.columns
       \/ ~AmountsConvert(file)
       \/ "Date" \notin file.columns
       \/ ~DatesConvert(file)
    THEN [ ok |-> FALSE, df |-> NoFrame ]
    ELSE LET r == categorize_transaction(ParsedFrame(file), cats)
         IN  IF r.ok THEN r ELSE [ ok |-> FALSE, df |-> NoFrame ]

\* ------------------------------------------------------- the backing store
\* The document is [exists, data]; data is the ordered "data" sub-document, a
\* field being an array of keywords or (what a dotted update path makes) a
\* nested document of arrays.
NoDocument == [ exists |-> FALSE, data |-> <<>> ]

ArrayField(n, ks) == [ name |-> n, kind |-> "array", keywords |-> ks, sub |-> <<>> ]

DocumentField(n, fields) == [ name |-> n, kind |-> "document", keywords |-> <<>>, sub |-> fields ]

\* the mapping as pymongo encodes it in replace_one: one array per key
ToBson(cats) == [ i \in 1..Len(cats) |-> ArrayField(cats[i].name, cats[i].keywords) ]

\* doc["data"] as the dict that find_one returns (array fields)
FromBson(data) == [ i \in 1..Len(data) |-> [ name |-> data[i].name, keywords |-> data[i].keywords ] ]

\* f"data.{category}" below "data": the server splits the path at the dots
PathSegments(category) == IF category = "A.B" THEN << "A", "B" >> ELSE << category >>

AddToSetList(l, x) == IF InList(x, l) THEN l ELSE Append(l, x)

\* $addToSet of x at field n of the ordered fields fs (arrays only below)
AddToSetField(fs, n, x) ==
    IF HasKey(fs, n)
    THEN [ fs EXCEPT ![IndexOf(fs, n)].keywords = AddToSetList(@, x) ]
    ELSE Append(fs, ArrayField(n, << x >>))

\* update_one({"_id": ...}, {"$addToSet": {"data.<category>": keyword}}, upsert=True)
\* on the server: [ok, doc]; ok = FALSE is a WriteError (the path runs into a
\* value of the wrong kind)
AddToSet(d, category, keyword) ==
    LET data == IF d.exists THEN d.data ELSE <<>>
        segs == PathSegments(category)
        a == segs[1]
    IN  IF Len(segs) = 1
        THEN IF HasKey(data, a) /\ data[IndexOf(data, a)].kind # "array"
             THEN [ ok |-> FALSE, doc |-> d ]
             ELSE [ ok |-> TRUE, doc |-> [ exists |-> TRUE, data |-> AddToSetField(data, a, keyword) ] ]
        ELSE IF ~HasKey(data, a)
             THEN [ ok |-> TRUE,
                    doc |-> [ exists |-> TRUE,
                              data |-> Append(data, DocumentField(a, << ArrayField(segs[2], << keyword >>) >>)) ] ]
             ELSE IF data[IndexOf(data, a)].kind # "document"
                  THEN [ ok |-> FALSE, doc |-> d ]
                  ELSE [ ok |-> TRUE,
                         doc |-> [ exists |-> TRUE,
                                   data |-> [ data EXCEPT ![IndexOf(data, a)].sub =
                                                AddToSetField(@, segs[2], keyword) ] ] ]

\* What the network and the server do to the calls of one script run: each
\* kind of call succeeds (TRUE) or raises PyMongoError (FALSE); the calls of
\* one kind within one run fare alike
Outcomes == [ connect : BOOLEAN, find_one : BOOLEAN, update_one : BOOLEAN, replace_one : BOOLEAN ]

\* ------------------------------------------------------- the trace of a run
NoEvent == [ op |-> "", idx |-> 0, cat |-> "", old |-> "", kw |-> <<>>, ret |-> FALSE, cats |-> <<>> ]

Event(op) == [ NoEvent EXCEPT !.op = op ]

Emit(st, e) == [ st EXCEPT !.log = Append(@, e) ]

\* ------------------------------------------------------- lines 13-39
\* get_mongo_client(): the cached handle, or one attempt to make it; the
\* attempt fails (connect = FALSE) when no URI is configured (line 22) or
\* server_info() raises (line 29)
get_mongo_client(st, o) ==
    IF st.client = "MongoClient" THEN st
    ELSE IF o.connect THEN [ st EXCEPT !.client = "MongoClient" ]
    ELSE [ st EXCEPT !.client = "None", !.faulted = TRUE ]

\* get_categories_collection(): the collection is None exactly when the client is
get_categories_collection(st, o) == get_mongo_client(st, o)

HasCollection(st) == st.client = "MongoClient"

\* load_categories_from_mongo(): the state after the call, the mapping in cats
load_categories_from_mongo(st, o) ==
    LET s1 == get_categories_collection(st, o)
    IN  IF ~HasCollection(s1) THEN [ s1 EXCEPT !.cats = DefaultCategories ]
        ELSE IF ~o.find_one
             THEN [ s1 EXCEPT !.cats = DefaultCategories, !.faulted = TRUE ]
        ELSE IF s1.doc.exists
             THEN [ s1 EXCEPT !.cats = FromBson(s1.doc.data) ]
        ELSE IF ~o.replace_one
             THEN [ s1 EXCEPT !.cats = DefaultCategories, !.faulted = TRUE ]
        ELSE [ s1 EXCEPT !.cats = DefaultCategories,
                         !.doc = [ exists |-> TRUE, data |-> ToBson(DefaultCategories) ] ]

\* save_categories_to_mongo(st.session_state.categories)
save_categories_to_mongo(st, o) ==
    LET s1 == get_categories_collection(st, o)
    IN  IF ~HasCollection(s1)
        THEN Emit(s1, [ Event("no_collection") EXCEPT !.ret = FALSE ])
        ELSE IF ~o.replace_one
             THEN Emit([ s1 EXCEPT !.faulted = TRUE ], [ Event("replace_one") EXCEPT !.ret = FALSE ])
        ELSE Emit([ s1 EXCEPT !.doc = [ exists |-> TRUE, data |-> ToBson(s1.cats) ] ],
                  [ Event("replace_one") EXCEPT !.ret = TRUE ])

\* PersistKeyword without the fallbacks of lines 121 and 124
PersistKeywordNoFallback(st, category, keyword, o) ==
    LET s1 == get_categories_collection(st, o)
        r == AddToSet(s1.doc, category, keyword)
    IN  IF HasCollection(s1)
        THEN IF o.update_one /\ r.ok
             THEN Emit([ s1 EXCEPT !.doc = r.doc ],
                       [ Event("update_one") EXCEPT !.cat = category, !.kw = keyword, !.ret = TRUE ])
             ELSE Emit([ s1 EXCEPT !.faulted = @ \/ ~o.update_one ],
                       [ Event("update_one") EXCEPT !.cat = category, !.kw = keyword, !.ret = FALSE ])
        ELSE Emit(s1, [ Event("no_collection") EXCEPT !.ret = FALSE ])

\* lines 113-124: persist the keyword just appended
PersistKeyword(st, category, keyword, o) ==
    LET s1 == get_categories_collection(st, o)
        r == AddToSet(s1.doc, category, keyword)
    IN  IF HasCollection(s1)
        THEN IF o.update_one /\ r.ok
             THEN Emit([ s1 EXCEPT !.doc = r.doc ],
                       [ Event("update_one") EXCEPT !.cat = category, !.kw = keyword, !.ret = TRUE ])
             ELSE save_categories_to_mongo(
                      Emit([ s1 EXCEPT !.faulted = @ \/ ~o.update_one ],
                           [ Event("update_one") EXCEPT !.cat = category, !.kw = keyword, !.ret = FALSE ]),
                      o)
        ELSE save_categories_to_mongo(Emit(s1, [ Event("no_collection") EXCEPT !.ret = FALSE ]), o)

Returned(st, value) == Emit(st, [ Event("return") EXCEPT !.ret = value, !.cats = st.cats ])

\* add_keyword_to_category without the membership test of line 111
add_keyword_always_appends(st, category, keyword, o) ==
    LET s0 == Emit(st, [ Event("add_keyword_to_category") EXCEPT
                            !.cat = category, !.kw = keyword, !.cats = st.cats ])
        kw == Strip(keyword)
        s1 == IF HasKey(s0.cats, category) THEN s0
              ELSE [ s0 EXCEPT !.cats = Put(@, category, <<>>) ]
    IN  IF kw = <<>> THEN Returned(s0, FALSE)
        ELSE Returned(
                 PersistKeyword(
                     [ s1 EXCEPT !.cats = Put(@, category, Append(Get(s1.cats, category), kw)) ],
                     category, kw, o),
                 TRUE)

\* add_keyword_to_category without the append of line 112
add_keyword_persists_only(st, category, keyword, o) ==
    LET s0 == Emit(st, [ Event("add_keyword_to_category") EXCEPT
                            !.cat = category, !.kw = keyword, !.cats = st.cats ])
        kw == Strip(keyword)
        s1 == IF HasKey(s0.cats, category) THEN s0
              ELSE [ s0 EXCEPT !.cats = Put(@, category, <<>>) ]
    IN  IF kw = <<>> THEN Returned(s0, FALSE)
        ELSE IF ~InList(kw, Get(s1.cats, category))
             THEN Returned(PersistKeyword(s1, category, kw, o), TRUE)
             ELSE Returned(s1, FALSE)

\* add_keyword_to_category(category, keyword); the call and its return value
\* are recorded with the mapping as it stood at each
add_keyword_to_category(st, category, keyword, o) ==
    LET s0 == Emit(st, [ Event("add_keyword_to_category") EXCEPT
                            !.cat = category, !.kw = keyword, !.cats = st.cats ])
        kw == Strip(keyword)
        s1 == IF HasKey(s0.cats, category) THEN s0
              ELSE [ s0 EXCEPT !.cats = Put(@, category, <<>>) ]
    IN  IF kw = <<>> THEN Returned(s0, FALSE)
        ELSE IF ~InList(kw, Get(s1.cats, category))
             THEN Returned(
                      PersistKeyword(
                          [ s1 EXCEPT !.cats = Put(@, category, Append(Get(s1.cats, category), kw)) ],
                          category, kw, o),
                      TRUE)
             ELSE Returned(s1, FALSE)

\* ------------------------------------------------------- the totals table
\* the group keys in the order groupby sorts them
KeyOrder == << "A.B", "Food", Uncategorized >>

RECURSIVE SumAmount(_)
SumAmount(rows) == IF rows = <<>> THEN 0 ELSE Head(rows).Amount + SumAmount(Tail(rows))

RowsOf(rows, category) == SelectSeq(rows, LAMBDA r : r.Category = category)

\* line 185: groupby("Category")["Amount"].sum().reset_index(), keys from k on
RECURSIVE GroupSums(_, _)
GroupSums(rows, k) ==
    IF k > Len(KeyOrder) THEN <<>>
    ELSE IF RowsOf(rows, KeyOrder[k]) = <<>> THEN GroupSums(rows, k + 1)
    ELSE << [ Category |-> KeyOrder[k], Amount |-> SumAmount(RowsOf(rows, KeyOrder[k])) ] >>
         \o GroupSums(rows, k + 1)

\* x into a table sorted by Amount descending, behind its equals
RECURSIVE InsertDescending(_, _)
InsertDescending(table, x) ==
    IF table = <<>> THEN << x >>
    ELSE IF Head(table).Amount >= x.Amount
         THEN << Head(table) >> \o InsertDescending(Tail(table), x)
         ELSE << x >> \o table

\* line 186: sort_values(by="Amount", ascending=False)
RECURSIVE SortDescending(_)
SortDescending(table) ==
    IF table = <<>> THEN <<>>
    ELSE InsertDescending(SortDescending(SubSeq(table, 1, Len(table) - 1)), table[Len(table)])

CategoryTotals(df) == SortDescending(GroupSums(df.rows, 1))

\* ------------------------------------------------------- the Save loop
\* SaveLoop without the test of lines 177-178
RECURSIVE SaveLoopNoSkip(_, _, _, _)
SaveLoopNoSkip(st, edits, i, o) ==
    IF i > Len(st.debits.rows) THEN st
    ELSE LET row == st.debits.rows[i]
             new_category == edits[i]
             s0 == Emit(st, [ Event("row") EXCEPT
                                 !.idx = row.idx, !.cat = new_category, !.old = row.Category ])
             s1 == Emit([ s0 EXCEPT !.debits.rows[i].Category = new_category ],
                        [ Event("set") EXCEPT !.idx = row.idx, !.cat = new_category ])
         IN  SaveLoopNoSkip(add_keyword_to_category(s1, new_category, row.Details, o),
                            edits, i + 1, o)

\* lines 175-182, from row i of the edited frame on; edits[i] is the Category
\* cell of row i as the editor returns it
RECURSIVE SaveLoop(_, _, _, _)
SaveLoop(st, edits, i, o) ==
    IF i > Len(st.debits.rows) THEN st
    ELSE LET row == st.debits.rows[i]
             new_category == edits[i]
             s0 == Emit(st, [ Event("row") EXCEPT
                                 !.idx = row.idx, !.cat = new_category, !.old = row.Category ])
         IN  IF new_category = row.Category THEN SaveLoop(s0, edits, i + 1, o)
             ELSE LET s1 == Emit([ s0 EXCEPT !.debits.rows[i].Category = new_category ],
                                 [ Event("set") EXCEPT !.idx = row.idx, !.cat = new_category ])
                  IN  SaveLoop(add_keyword_to_category(s1, new_category, row.Details, o),
                               edits, i + 1, o)

\* ------------------------------------------------------- main()
\* DebitRows without the filter of line 137
DebitRowsUnfiltered(df) == df

\* line 137 and 140: the Debit rows, index kept
DebitRows(df) == [ columns |-> df.columns, rows |-> SelectSeq(df.rows, LAMBDA r : r.DC = "Debit") ]

\* line 158: the columns the editor selects
EditorColumns == { "Date", "Details", "Amount", "Category" }

\* One run of main() with the file in the uploader: add_name is the text of
\* "Add New Category" when "Add Category" was pressed ("" otherwise), save is
\* the "Save Categories" button, edits the Category column of edited_df.
\* st.rerun() (line 152) ends the run and starts the script again with no
\* button pressed.
RECURSIVE main(_, _, _, _, _, _)
main(st, file, add_name, save, edits, o) ==
    LET ld == load_transactions(file, st.cats)
        s0 == Emit(st, [ Event("load_transactions") EXCEPT !.ret = ld.ok, !.cats = st.cats ])
    IN  IF ~ld.ok THEN s0
        ELSE IF "Debit/Credit" \notin ld.df.columns
             THEN Emit(s0, [ Event("KeyError") EXCEPT !.cat = "Debit/Credit" ])
        ELSE LET s1 == [ s0 EXCEPT !.debits = DebitRows(ld.df) ]
             IN  IF add_name # "" /\ ~HasKey(s1.cats, add_name)
                 THEN main(save_categories_to_mongo(
                               Emit([ s1 EXCEPT !.cats = Put(@, add_name, <<>>) ],
                                    [ Event("add_category") EXCEPT !.cat = add_name ]), o),
                           file, "", FALSE, <<>>, o)
                 ELSE IF ~(EditorColumns \subseteq s1.debits.columns)
                      THEN Emit(s1, [ Event("KeyError") EXCEPT !.cat = "Details" ])
                 ELSE LET s2 == IF save THEN SaveLoop(s1, edits, 1, o) ELSE s1
                      IN  Emit([ s2 EXCEPT !.totals = CategoryTotals(s2.debits) ],
                               Event("category_totals"))

\* ------------------------------------------------------- the uploads
Cell(details, amount, dc, date) ==
    [ Date |-> date, Details |-> details, Amount |-> amount, DC |-> dc ]

\* the well-formed data rows
GoodRows ==
    << Cell(<<"A", " ">>, <<"1", ",", "0">>, "Debit", GoodDate),
       Cell(<<"b">>, <<"2">>, "Debit", GoodDate),
       Cell(<<" ">>, <<"2">>, "Debit", GoodDate),
       Cell(<<"b">>, <<"1", ",", "0">>, "Credit", GoodDate) >>

SeqsUpTo(S, n) == UNION { [ 1..k -> S ] : k \in 1..n }

\* the well-formed uploads: up to MaxRows data rows, kinds in the order of
\* GoodRows (every row is parsed, classified and saved on its own)
GoodFiles ==
    { [ columns |-> RequiredColumns, rows |-> [ i \in DOMAIN s |-> GoodRows[s[i]] ] ] :
        s \in { t \in SeqsUpTo(1..Len(GoodRows), MaxRows) :
                  \A i \in 1..Len(t) - 1 : t[i] <= t[i + 1] } }

\* a file whose last row has the given Date and Amount cells
EndingWith(date, amount) ==
    [ columns |-> RequiredColumns,
      rows |-> << Cell(<<"a">>, <<"2">>, "Debit", GoodDate), Cell(<<"a">>, amount, "Debit", date) >> ]

\* a file without the column c (its cells are never read)
Without(c) ==
    [ columns |-> RequiredColumns \ { c },
      rows |-> << Cell(IF c = "Details" THEN <<>> ELSE <<"a">>,
                       <<"2">>,
                       IF c = "Debit/Credit" THEN "" ELSE "Debit",
                       GoodDate) >> ]

\* malformed Date, malformed Amount, a required column missing
MalformedFiles ==
    { EndingWith(BadDate, <<"2">>), EndingWith(GoodDate, <<"x">>) }
        \cup { Without(c) : c \in RequiredColumns }

Files == GoodFiles \cup MalformedFiles

NoFile == [ columns |-> {}, rows |-> <<>> ]

\* the persisted documents a session may find
InitialDocuments ==
    { NoDocument,
      [ exists |-> TRUE,
        data |-> << ArrayField(Uncategorized, <<>>), ArrayField("Food", << <<"a">> >>),
                    ArrayField("A.B", << <<"A">> >>) >> ] }

\* ------------------------------------------------------- the state machine
\* the session state as the operators above thread it
Session ==
    [ cats |-> categories, doc |-> doc, client |-> mongo_client, log |-> <<>>,
      faulted |-> faulted, debits |-> debits_df, totals |-> category_totals ]

Install(st) ==
    /\ categories' = st.cats
    /\ doc' = st.doc
    /\ mongo_client' = st.client
    /\ log' = st.log
    /\ faulted' = st.faulted
    /\ debits_df' = st.debits
    /\ category_totals' = st.totals

\* lines 69-70 on the first script run of a session; main() then finds no file
Init ==
    \E d \in InitialDocuments, o \in Outcomes :
        LET st == load_categories_from_mongo(
                      [ cats |-> <<>>, doc |-> d, client |-> "None", log |-> <<>>,
                        faulted |-> FALSE, debits |-> NoFrame, totals |-> <<>> ], o)
        IN  /\ categories = st.cats
            /\ doc = st.doc
            /\ mongo_client = st.client
            /\ log = <<>>
            /\ faulted = st.faulted
            /\ debits_df = NoFrame
            /\ category_totals = <<>>
            /\ uploaded_file = NoFile
            /\ fed = {}
            /\ runs = 0

LastEvent == IF log = <<>> THEN NoEvent ELSE log[Len(log)]

\* the last run drew the "Save Categories" button (line 173)
SaveButtonShown == LastEvent.op = "category_totals"

\* the last run drew the "Add Category" button (line 146)
AddButtonShown == SaveButtonShown \/ (LastEvent.op = "KeyError" /\ LastEvent.cat = "Details")

\* the outcomes that can differ in a run: find_one is called at line 46 only,
\* update_one in add_keyword_to_category only, and a cached handle connects
\* no more; without a handle no call is made
RunOutcomes(updates) ==
    { o \in Outcomes : /\ o.find_one
                       /\ (~updates => o.update_one)
                       /\ (mongo_client = "MongoClient" => o.connect)
                       /\ (~o.connect => o.update_one /\ o.replace_one) }

\* the outcomes handed to a run that makes no call
AllSucceed == [ connect |-> TRUE, find_one |-> TRUE, update_one |-> TRUE, replace_one |-> TRUE ]

\* the user puts a file into the uploader: the script runs, no button pressed
Upload(f) ==
    /\ runs < MaxRuns
    /\ uploaded_file' = f
    /\ \E st \in { main(Session, f, "", FALSE, <<>>, AllSucceed) } : Install(st)
    /\ UNCHANGED fed
    /\ runs' = runs + 1

\* the user types a name and presses "Add Category"
AddCategory(name, o) ==
    /\ runs < MaxRuns
    /\ AddButtonShown
    /\ \E st \in { main(Session, uploaded_file, name, FALSE, <<>>, o) } : Install(st)
    /\ UNCHANGED << uploaded_file, fed >>
    /\ runs' = runs + 1

\* the frame the editor shows in this run: the file loaded and split anew
ShownDebits == DebitRows(load_transactions(uploaded_file, categories).df)

\* the edit as a single-row move out of "Uncategorized": {<<Details, category>>}
Feedback(shown, edits) ==
    LET changed == { i \in 1..Len(shown.rows) : edits[i] # shown.rows[i].Category }
    IN  IF Cardinality(changed) = 1
        THEN { << shown.rows[i].Details, edits[i] >> :
                 i \in { j \in changed : shown.rows[j].Category = Uncategorized } }
        ELSE {}

\* the user picks categories in the editor and presses "Save Categories"
SaveCategories(edits, o) ==
    /\ runs < MaxRuns
    /\ SaveButtonShown
    /\ \E st \in { main(Session, uploaded_file, "", TRUE, edits, o) } : Install(st)
    /\ fed' = fed \cup Feedback(ShownDebits, edits)
    /\ UNCHANGED uploaded_file
    /\ runs' = runs + 1

UploadFile == \E f \in Files : Upload(f)

PressAddCategory == \E name \in NewCategoryNames, o \in RunOutcomes(FALSE) : AddCategory(name, o)

\* the editor offers the keys of the store (line 164) for every shown row
PressSaveCategories ==
    \E edits \in [ 1..Len(ShownDebits.rows) -> Keys(categories) ], o \in RunOutcomes(TRUE) :
        SaveCategories(edits, o)

Next == UploadFile \/ PressAddCategory \/ PressSaveCategories

Spec == Init /\ [][Next]_vars

\* ------------------------------------------------------- reading the trace
Positions == 1..Len(log)

Calls == { p \in Positions : log[p].op = "add_keyword_to_category" }

\* the return of the call at p
ReturnOf(p) ==
    CHOOSE q \in Positions :
        /\ q > p
        /\ log[q].op = "return"
        /\ \A r \in (p + 1)..(q - 1) : log[r].op # "return"

\* two calls in a row: no other call between them
InARow(p, q) == p \in Calls /\ q \in Calls /\ p < q /\ \A r \in (p + 1)..(q - 1) : r \notin Calls

KeywordsAt(cats, c) == IF HasKey(cats, c) THEN Get(cats, c) ELSE <<>>

Count(l, x) == Cardinality({ i \in 1..Len(l) : l[i] = x })

Folded(s) == Strip(Lower(s))

StoreWrites == { "update_one", "replace_one", "no_collection" }

\* the last run was a Save pass that changed some row
SavedAnEdit == \E p \in Positions : log[p].op = "set"

\* The category the store gives to a Details value, said without the loops:
\* the last entry, other than "Uncategorized" and the entries without
\* keywords, that holds a keyword equal to it after lower-casing and trimming
MatchingEntries(details, cats) ==
    { k \in 1..Len(cats) :
        /\ cats[k].name # Uncategorized
        /\ cats[k].keywords # <<>>
        /\ \E j \in 1..Len(cats[k].keywords) : Folded(cats[k].keywords[j]) = Folded(details) }

LastMatch(details, cats) ==
    LET m == MatchingEntries(details, cats)
    IN  IF m = {} THEN Uncategorized
        ELSE cats[CHOOSE k \in m : \A j \in m : j <= k].name

\* the category load_transactions gives to a row whose Details is d
ClassifiedAs(d, cats) ==
    categorize_transaction(
        [ columns |-> RequiredColumns,
          rows |-> << [ idx |-> 1, Date |-> <<>>, Details |-> d, Amount |-> 0,
                        DC |-> "Debit", Category |-> "" ] >> ], cats).df.rows[1].Category

\* ------------------------------------------------------- the claims

(* C1: in every state of a session the store holds the key "Uncategorized",  *)
(* and no call of add_keyword_to_category changes the keyword list of        *)
(* "Uncategorized", also when a row is re-assigned to "Uncategorized" and    *)
(* saved.                                                                    *)
C1_UncategorizedNeverExtended ==
    /\ HasKey(categories, Uncategorized)
    /\ \A p \in Calls :
         KeywordsAt(log[ReturnOf(p)].cats, Uncategorized) = KeywordsAt(log[p].cats, Uncategorized)

(* C2, as claimed: after two calls in a row with the same category and the   *)
(* same keyword k, the list of the category holds (the trimmed) k exactly    *)
(* once; the first call returns True if k was new, the second returns False  *)
(* and leaves the mapping as the first left it.                              *)
C2_TwiceAddsOnce ==
    \A p, q \in Calls :
        (InARow(p, q) /\ log[p].cat = log[q].cat /\ log[p].kw = log[q].kw) =>
            LET k == Strip(log[p].kw)
                first == log[ReturnOf(p)]
                second == log[ReturnOf(q)]
            IN  /\ Count(KeywordsAt(second.cats, log[p].cat), k) = 1
                /\ (~InList(k, KeywordsAt(log[p].cats, log[p].cat)) => first.ret)
                /\ ~second.ret
                /\ second.cats = first.cats

(* C2, amended: the same for a keyword whose trimmed form is not empty, the  *)
(* first call returning True exactly when the trimmed keyword was new; for a *)
(* keyword that is empty after trimming both calls return False and store    *)
(* nothing.                                                                  *)
C2_TwiceAddsOnceUnlessEmpty ==
    \A p, q \in Calls :
        (InARow(p, q) /\ log[p].cat = log[q].cat /\ log[p].kw = log[q].kw) =>
            LET k == Strip(log[p].kw)
                first == log[ReturnOf(p)]
                second == log[ReturnOf(q)]
            IN  IF k # <<>>
                THEN /\ Count(KeywordsAt(second.cats, log[p].cat), k) = 1
                     /\ first.ret = ~InList(k, KeywordsAt(log[p].cats, log[p].cat))
                     /\ ~second.ret
                     /\ second.cats = first.cats
                ELSE /\ ~first.ret
                     /\ ~second.ret
                     /\ first.cats = log[p].cats
                     /\ second.cats = log[p].cats

\* a Save pass added the same new keyword to the same category twice in a row
C2_Witness ==
    \E p, q \in Calls :
        /\ InARow(p, q)
        /\ log[p].cat = log[q].cat
        /\ log[p].kw = log[q].kw
        /\ Strip(log[p].kw) # <<>>
        /\ log[ReturnOf(p)].ret

(* C3: add_keyword_to_category compares case-insensitively: a call whose     *)
(* keyword equals an entry of the category up to trimming and letter case    *)
(* returns False and changes nothing, and no keyword list holds two entries  *)
(* that are equal after trimming and case-folding.                           *)
C3_CaseInsensitiveNoDuplicates ==
    /\ \A k \in 1..Len(categories) :
         \A i, j \in 1..Len(categories[k].keywords) :
            i # j => Folded(categories[k].keywords[i]) # Folded(categories[k].keywords[j])
    /\ \A p \in Calls :
         (\E i \in 1..Len(KeywordsAt(log[p].cats, log[p].cat)) :
              Folded(KeywordsAt(log[p].cats, log[p].cat)[i]) = Folded(log[p].kw))
            => (~log[ReturnOf(p)].ret /\ log[ReturnOf(p)].cats = log[p].cats)

\* the run ended with the frame as load_transactions classified it
ShowsClassification == LastEvent.op = "category_totals" /\ ~SavedAnEdit

(* C4: classification is exact-match and last-match-wins: every record of a  *)
(* load carries the last category, in the store's order and leaving out      *)
(* "Uncategorized" and the categories without keywords, one of whose         *)
(* lower-cased, trimmed keywords equals the record's lower-cased, trimmed    *)
(* Details, and "Uncategorized" when there is none; the store the load was   *)
(* given is the store after it.                                              *)
C4_LastMatchWins ==
    ShowsClassification =>
        /\ \A i \in 1..Len(debits_df.rows) :
             debits_df.rows[i].Category = LastMatch(debits_df.rows[i].Details, categories)
        /\ LET ld == load_transactions(uploaded_file, categories)
           IN  \A i \in 1..Len(ld.df.rows) :
                 ld.df.rows[i].Category = LastMatch(ld.df.rows[i].Details, categories)
        /\ \E p \in Positions :
             /\ log[p].op = "load_transactions"
             /\ \A q \in Positions : q > p => log[q].op # "load_transactions"
             /\ log[p].cats = categories

\* a loaded row whose Details matches keywords of two categories
C4_Witness ==
    /\ ShowsClassification
    /\ \E i \in 1..Len(debits_df.rows) :
         Cardinality(MatchingEntries(debits_df.rows[i].Details, categories)) >= 2

Malformed(f) ==
    \/ ~(RequiredColumns \subseteq f.columns)
    \/ \E i \in 1..Len(f.rows) :
         ~DateMatches(f.rows[i].Date) \/ ~IsNumeric(RemoveCommas(f.rows[i].Amount))

(* C6: a run that loads a malformed file (and adds no category) gets None    *)
(* from load_transactions, and leaves the in-memory store, the persisted     *)
(* store and st.session_state.debits_df as they were.                        *)
C6_FailedLoadChangesNothing ==
    [][ ( /\ runs' = runs + 1
          /\ Malformed(uploaded_file')
          /\ \A p \in 1..Len(log') : log'[p].op # "add_category" )
        => /\ ~load_transactions(uploaded_file', categories).ok
           /\ categories' = categories
           /\ doc' = doc
           /\ debits_df' = debits_df
      ]_vars

(* C7: when the keyword was appended and update_one fails, replace_one of    *)
(* the whole mapping is attempted next; whether that fails too, or there is  *)
(* no collection handle at all, the call returns True with the keyword still *)
(* in the in-memory list, and the run goes on to its end.                    *)
C7_AppendStandsWhenPersistenceFails ==
    /\ \A p \in Positions :
         (log[p].op = "update_one" /\ ~log[p].ret) =>
            /\ p + 2 <= Len(log)
            /\ log[p + 1].op = "replace_one"
            /\ log[p + 2].op = "return"
            /\ log[p + 2].ret
            /\ InList(log[p].kw, KeywordsAt(log[p + 2].cats, log[p].cat))
            /\ InList(log[p].kw, KeywordsAt(categories, log[p].cat))
    /\ \A p \in Calls :
         (p < Len(log) /\ log[p + 1].op = "no_collection") =>
            /\ p + 3 <= Len(log)
            /\ log[p + 2].op \in { "no_collection", "replace_one" }
            /\ log[p + 3].op = "return"
            /\ log[p + 3].ret
            /\ InList(Strip(log[p].kw), KeywordsAt(log[p + 3].cats, log[p].cat))
            /\ InList(Strip(log[p].kw), KeywordsAt(categories, log[p].cat))
    /\ SavedAnEdit => LastEvent.op = "category_totals"

\* update_one failed and the replace_one that followed failed too
C7_Witness ==
    \E p \in Positions :
        /\ log[p].op = "update_one" /\ ~log[p].ret
        /\ p < Len(log) /\ log[p + 1].op = "replace_one" /\ ~log[p + 1].ret

RECURSIVE SumOver(_, _)
SumOver(f, S) ==
    IF S = {} THEN 0
    ELSE LET i == CHOOSE j \in S : TRUE
         IN  AmountOf(f.rows[i].Amount) + SumOver(f, S \ { i })

FileDebits == { i \in 1..Len(uploaded_file.rows) : uploaded_file.rows[i].DC = "Debit" }

RowOfIndex(idx) == CHOOSE i \in 1..Len(debits_df.rows) : debits_df.rows[i].idx = idx

(* C9: in a Save pass a row whose edited Category equals the stored one is   *)
(* followed by no update of the record, no call of add_keyword_to_category   *)
(* and no store write; a row whose Category differs has its record updated   *)
(* first and add_keyword_to_category called next; store writes happen only   *)
(* inside such a call.                                                       *)
C9_OnlyChangedRowsWritten ==
    /\ \A p \in Positions :
         log[p].op = "row" =>
            IF log[p].cat = log[p].old
            THEN /\ p < Len(log)
                 /\ log[p + 1].op \in { "row", "category_totals" }
                 /\ debits_df.rows[RowOfIndex(log[p].idx)].Category = log[p].old
            ELSE /\ p + 2 <= Len(log)
                 /\ log[p + 1].op = "set"
                 /\ log[p + 1].idx = log[p].idx
                 /\ log[p + 1].cat = log[p].cat
                 /\ log[p + 2].op = "add_keyword_to_category"
                 /\ log[p + 2].cat = log[p].cat
                 /\ log[p + 2].kw = debits_df.rows[RowOfIndex(log[p].idx)].Details
                 /\ debits_df.rows[RowOfIndex(log[p].idx)].Category = log[p].cat
    /\ \A p \in Positions :
         (log[p].op \in StoreWrites /\ \E r \in Positions : log[r].op = "row") =>
            \E c \in Calls : c < p /\ p < ReturnOf(c)

\* a Save pass with a row left alone and a row changed
C9_Witness ==
    \E p, q \in Positions :
        /\ log[p].op = "row" /\ log[p].cat = log[p].old
        /\ log[q].op = "row" /\ log[q].cat # log[q].old

(* C10: while every call of the backing store has succeeded, the "data"      *)
(* field of the persisted document equals the in-memory mapping.             *)
C10_WriteThrough ==
    ~faulted => (doc.exists /\ doc.data = ToBson(categories))

====
